---- MODULE Spec2Model ----
(***************************************************************************)
(* Model of rtm-api's task index store (utils/taskIds.js) and of the       *)
(* per-user request throttle in get() (utils/get.js).                      *)
(*                                                                         *)
(* Index store: the module-level CACHE object, the backing JSON file and   *)
(* Node's require() cache for that file.  A process start is the action    *)
(* Restart (the module-level _readCache() call).                           *)
(*                                                                         *)
(* Throttle: the wall clock, each RTMUser object's _nextRequest field and  *)
(* the timers armed by setTimeout.  A timer runs its callback once, at any *)
(* clock reading not earlier than now + timeout; Node gives no guarantee   *)
(* on how late, nor on the order in which expired timers run.              *)
(***************************************************************************)
EXTENDS Integers, Sequences, FiniteSets, TLC

\* ------------------------------------------------------------------------
\* Bounds of the model
\* ------------------------------------------------------------------------

\* largest number of indices a user's table may hold in the model
MaxIndex == 2

\* largest number of get() calls in a behaviour
MaxCalls == 3

\* last clock reading of the model (ms)
MaxTime == 2000

\* step of the clock (ms)
TickMs == 500

\* ------------------------------------------------------------------------
\* JavaScript values
\* ------------------------------------------------------------------------

Num(n) == [t |-> "num", v |-> n]

NaN == [t |-> "nan", v |-> 0]

Null == [t |-> "null", v |-> 0]

Undefined == [t |-> "undef", v |-> 0]

\* parseFloat of a value that is a number or NaN already (the id fields of
\* an RTMTask are themselves results of parseFloat)
parseFloat(x) == IF x.t = "num" THEN x ELSE NaN

\* === with NaN taken as equal to itself (the SameValue comparison)
StrictEqSameValue(a, b) == a = b

\* the === operator on numbers, NaN, null and undefined
StrictEq(a, b) == a.t # "nan" /\ b.t # "nan" /\ a = b

\* JSON.stringify followed by JSON.parse of one field value:
\* a number is kept, NaN is written as null
ToJSON(x) == IF x.t = "nan" THEN Null ELSE x

\* ------------------------------------------------------------------------
\* Inputs
\* ------------------------------------------------------------------------

\* RTM user ids
UserIds == {42, 7}

\* the RTMTask objects handed to getIndex: list_id, taskseries_id, task_id
Tasks ==
  { [list_id |-> Num(1), taskseries_id |-> Num(10), task_id |-> Num(100)],
    [list_id |-> Num(1), taskseries_id |-> Num(11), task_id |-> Num(101)],
    [list_id |-> Num(2), taskseries_id |-> Num(10), task_id |-> Num(100)] }

VARIABLES
  CACHE,      \* the module variable CACHE: [USERS |-> user id -> (index -> entry)]
  file,       \* the backing file: [exists, data]
  required,   \* TRUE when FILE is in require()'s module cache; CACHE is then
              \* the very object require(FILE) returns
  last,       \* the last getIndex call of this process: [userId, index, minted]
              \* (userId 0: none yet); minted = a new index was created
  watch,      \* history: the (user, task) pair whose indices are recorded
  first,      \* history: index returned by the first getIndex(watch) since the
              \* last clear (of any user) or process start (0: no such call)
  firstU,     \* history: the same, since the last clear(watch.u) or process start
  cleared,    \* history: the users cleared by clear(userId) for whom getIndex
              \* has not been called since
  scen,       \* history: how many operations of the index-reuse scenario the
              \* behaviour consists of so far (ScenOff: it left the scenario)
  mintedSince, \* history: the <<user, index>> pairs getIndex created in this
              \* process since the last save() or clear()
  atSave,     \* history: CACHE as it was right after the last save() or clear()
  found,      \* the lookups of the task operation in progress:
              \* [userId, taskIndex, had, ids] (NoLookup when there is none);
              \* had = the user had a table in CACHE when they were made,
              \* ids = what getListId, getTaskSeriesId and getTaskId returned
  op,         \* the index-based task operation in progress (IdleOp: none)
  answered,   \* the get() calls whose request has been answered (by a
              \* response of the server or by a network error)
  tg          \* the user.tasks.get() or user.tasks.getTask() call in
              \* progress (IdleGetState: none)

coreVars == <<CACHE, file, required, last>>

watchVars == <<watch, first, firstU>>

reuseVars == <<cleared, scen>>

durVars == <<mintedSince, atSave>>

opVars == <<found, op>>

respVars == <<answered, tg>>

histVars == <<watchVars, reuseVars, durVars, opVars, respVars>>

idxVars == <<coreVars, histVars>>

VARIABLES
  now,          \* the wall clock, new Date().getTime()
  nextRequest,  \* the _nextRequest field of each RTMUser object: [def, t]
  calls,        \* the get() calls made so far, in order:
                \* [user, at, timeout, fired, firedAt]; fired counts the
                \* dispatches of the call's request, firedAt is the clock
                \* reading of the last one
  timers        \* the calls whose setTimeout timer is armed

schedVars == <<now, nextRequest, calls, timers>>

vars == <<idxVars, schedVars>>

\* scen when the behaviour is not a prefix of the scenario
ScenOff == 0 - 1

NoCall == [userId |-> 0, index |-> 0, minted |-> FALSE]

NoLookup == [userId |-> 0, taskIndex |-> 0, had |-> FALSE,
             ids |-> <<Undefined, Undefined, Undefined>>]

\* op when no task operation is in progress.  pc: where the operation is;
\* cb: how many times its callback has been called; err: the error the
\* callback was given; fetches: the refresh fetches made; req: the ids of
\* the mutating request sent to the server (sent = 0: none sent); thrownFor,
\* thrownIn: the user and the server's answer of the fetch in which save()
\* threw (0 and << >>: none)
IdleOp == [pc |-> "idle", cb |-> 0, err |-> "none", fetches |-> 0, sent |-> 0,
           req |-> <<Undefined, Undefined, Undefined>>,
           thrownFor |-> 0, thrownIn |-> << >>]

\* tg when no call is in progress.  pc: where the call is; stage: "get" for
\* user.tasks.get() called by the application, "info" for the fetch of
\* _getTaskInfo, "task" for the fetch of getTask; lists, tasks: the state
\* of the two requests of user.tasks.get() (pending, ok, err; thrown: the
\* handler of the tasks answer threw); count, returned, TASKS: the variables
\* of user.tasks.get(); cb, err: how many times its callback was called and
\* with what error; firstErr: the request whose error arrived first; want:
\* the ids _getTaskInfo gave getTask; out, outErr, outTask: how many times
\* the callback of getTask was called, with what error or task
IdleGetState ==
  [pc |-> "idle", stage |-> "get", userId |-> 0,
   lists |-> "pending", tasks |-> "pending",
   count |-> 0, returned |-> FALSE, TASKS |-> << >>,
   cb |-> 0, err |-> "none", firstErr |-> "none",
   want |-> <<Undefined, Undefined, Undefined>>,
   out |-> 0, outErr |-> "none", outTask |-> << >>]

EmptyStore == [USERS |-> [u \in {} |-> [i \in {} |-> Null]]]

\* ------------------------------------------------------------------------
\* utils/taskIds.js
\* ------------------------------------------------------------------------

\* getUser: the user's table, or {} when the user has none
getUser(c, userId) ==
  IF userId \in DOMAIN c.USERS THEN c.USERS[userId] ELSE [i \in {} |-> Null]

\* Matches with the list id compared with the task id
MatchesWrongField(e, taskId, taskSeriesId, listId) ==
  /\ StrictEq(e.task_id, taskId)
  /\ StrictEq(e.taskseries_id, taskSeriesId)
  /\ StrictEq(e.list_id, taskId)

\* the loop "for i < ids.length": the entry matches on all three fields
Matches(e, taskId, taskSeriesId, listId) ==
  /\ StrictEq(e.task_id, taskId)
  /\ StrictEq(e.taskseries_id, taskSeriesId)
  /\ StrictEq(e.list_id, listId)

\* MatchingIndices comparing the task id alone
MatchingIndicesTaskIdOnly(user, task) ==
  { i \in DOMAIN user : StrictEq(user[i].task_id, parseFloat(task.task_id)) }

\* the indices of the user's table whose entry matches the task
MatchingIndices(user, task) ==
  { i \in DOMAIN user :
      Matches(user[i], parseFloat(task.task_id),
              parseFloat(task.taskseries_id), parseFloat(task.list_id)) }

\* Object.keys lists integer keys in ascending order, so the first match of
\* the loop is the smallest matching index
Min(S) == CHOOSE m \in S : \A n \in S : m <= n

\* NewIndex with the search started one below the given index
NewIndexFromBelow(indices, index) ==
  Min({ n \in (index - 1)..(index + Cardinality(indices)) : n \notin indices })

\* "let index = 1; while ( indices.indexOf(index.toString()) > -1 ) index++"
RECURSIVE NewIndex(_, _)
NewIndex(indices, index) ==
  IF index \in indices THEN NewIndex(indices, index + 1) ELSE index

\* the entry object getIndex stores
NewEntry(task) ==
  [task_id |-> parseFloat(task.task_id),
   taskseries_id |-> parseFloat(task.taskseries_id),
   list_id |-> parseFloat(task.list_id)]

\* Assign that stores into the user's table without creating it: nothing is
\* stored for a user that has no table
AssignNoCreate(c, userId, index, entry) ==
  IF userId \in DOMAIN c.USERS
    THEN [USERS |-> [u \in DOMAIN c.USERS |->
            IF u = userId
              THEN [i \in DOMAIN c.USERS[u] \cup {index} |->
                      IF i = index THEN entry ELSE c.USERS[u][i]]
              ELSE c.USERS[u]]]
    ELSE c

\* CACHE.USERS[userId][index] = entry, creating the user's table when absent
Assign(c, userId, index, entry) ==
  LET user == getUser(c, userId)
      table == [i \in DOMAIN user \cup {index} |->
                  IF i = index THEN entry ELSE user[i]]
  IN [USERS |-> [u \in DOMAIN c.USERS \cup {userId} |->
                  IF u = userId THEN table ELSE c.USERS[u]]]

\* the index getIndex returns
IndexOf(c, userId, task) ==
  LET user == getUser(c, userId)
      m == MatchingIndices(user, task)
  IN IF m # {} THEN Min(m) ELSE NewIndex(DOMAIN user, 1)

\* CacheAfterGetIndex that stores a new entry under index 1
CacheAfterGetIndexAtFirst(c, userId, task) ==
  IF MatchingIndices(getUser(c, userId), task) # {}
    THEN c
    ELSE Assign(c, userId, 1, NewEntry(task))

\* the store after getIndex
CacheAfterGetIndex(c, userId, task) ==
  LET user == getUser(c, userId)
  IN IF MatchingIndices(user, task) # {}
       THEN c
       ELSE Assign(c, userId, NewIndex(DOMAIN user, 1), NewEntry(task))

\* getTaskId that reads the task-series id of the entry
getTaskIdOfSeries(c, userId, taskIndex) ==
  LET user == getUser(c, userId)
  IN IF taskIndex \in DOMAIN user THEN user[taskIndex].taskseries_id ELSE Undefined

\* getTaskId / getTaskSeriesId / getListId
getTaskId(c, userId, taskIndex) ==
  LET user == getUser(c, userId)
  IN IF taskIndex \in DOMAIN user THEN user[taskIndex].task_id ELSE Undefined

getTaskSeriesId(c, userId, taskIndex) ==
  LET user == getUser(c, userId)
  IN IF taskIndex \in DOMAIN user THEN user[taskIndex].taskseries_id ELSE Undefined

getListId(c, userId, taskIndex) ==
  LET user == getUser(c, userId)
  IN IF taskIndex \in DOMAIN user THEN user[taskIndex].list_id ELSE Undefined

\* the three lookups of one index
Lookup(c, userId, i) ==
  <<getListId(c, userId, i), getTaskSeriesId(c, userId, i), getTaskId(c, userId, i)>>

\* Stringify that writes the task id only
StringifyTaskIdOnly(c) ==
  [USERS |-> [u \in DOMAIN c.USERS |->
     [i \in DOMAIN c.USERS[u] |->
        [task_id |-> ToJSON(c.USERS[u][i].task_id),
         taskseries_id |-> Null,
         list_id |-> Null]]]]

\* JSON.stringify(CACHE), as the document the file then holds
Stringify(c) ==
  [USERS |-> [u \in DOMAIN c.USERS |->
     [i \in DOMAIN c.USERS[u] |->
        [task_id |-> ToJSON(c.USERS[u][i].task_id),
         taskseries_id |-> ToJSON(c.USERS[u][i].taskseries_id),
         list_id |-> ToJSON(c.USERS[u][i].list_id)]]]]

\* _readCache: CACHE = require(FILE) when the file exists.  require() reads
\* the file only the first time; afterwards it returns the cached object,
\* which is the object CACHE already names.
ReadCache(c, f, req) ==
  IF f.exists /\ ~req THEN f.data ELSE c

\* ------------------------------------------------------------------------
\* Actions of the index store
\* ------------------------------------------------------------------------

\* FileAfterGetIndex for a getIndex that ends with save()
FileAfterGetIndexSaved(f, c) == [exists |-> TRUE, data |-> Stringify(c)]

\* the file after getIndex: getIndex has no fs call, the file is as before
FileAfterGetIndex(f, c) == f

\* a first process starts and finds no file
IdxInit ==
  /\ CACHE = EmptyStore
  /\ file = [exists |-> FALSE, data |-> EmptyStore]
  /\ required = FALSE
  /\ last = NoCall

\* the history variables when nothing is recorded
HistIdle ==
  /\ watch = CHOOSE w \in [u : UserIds, task : Tasks] : TRUE
  /\ first = 0
  /\ firstU = 0
  /\ cleared = {}
  /\ scen = 0
  /\ mintedSince = {}
  /\ atSave = EmptyStore
  /\ found = NoLookup
  /\ op = IdleOp
  /\ answered = {}
  /\ tg = IdleGetState

\* getIndex(userId, task), as called by the RTMTask constructor
GetIndex(userId, task) ==
  /\ \/ MatchingIndices(getUser(CACHE, userId), task) # {}
     \/ Cardinality(DOMAIN getUser(CACHE, userId)) < MaxIndex
  /\ last' = [userId |-> userId, index |-> IndexOf(CACHE, userId, task),
              minted |-> MatchingIndices(getUser(CACHE, userId), task) = {}]
  /\ CACHE' = CacheAfterGetIndex(CACHE, userId, task)
  /\ file' = FileAfterGetIndex(file, CacheAfterGetIndex(CACHE, userId, task))
  /\ UNCHANGED required
  /\ UNCHANGED schedVars

\* save()
Save ==
  /\ file' = [exists |-> TRUE, data |-> Stringify(CACHE)]
  /\ UNCHANGED <<CACHE, required, last>>
  /\ UNCHANGED schedVars

\* ClearUser that leaves the store as it is
ClearUserNoop(c, userId) == c

\* "CACHE.USERS[userId] = {}"
ClearUser(c, userId) ==
  [USERS |-> [u \in DOMAIN c.USERS \cup {userId} |->
                IF u = userId THEN [i \in {} |-> Null] ELSE c.USERS[u]]]

\* clear(userId): _readCache(), the user's table replaced by {}, save()
Clear(userId) ==
  LET c1 == ReadCache(CACHE, file, required)
      c2 == ClearUser(c1, userId)
  IN /\ CACHE' = c2
     /\ required' = (required \/ file.exists)
     /\ file' = [exists |-> TRUE, data |-> Stringify(c2)]
     /\ UNCHANGED last
     /\ UNCHANGED schedVars

\* the process ends and a new one loads the module: CACHE literal, then
\* the module-level _readCache()
Restart ==
  /\ CACHE' = ReadCache(EmptyStore, file, FALSE)
  /\ required' = file.exists
  /\ last' = NoCall
  /\ UNCHANGED file
  /\ UNCHANGED schedVars

\* ------------------------------------------------------------------------
\* task/helper.js and user/tasks.js: fetching the tasks, and the task
\* operations that name a task by its index
\* ------------------------------------------------------------------------

\* the task lists the server may answer rtm.tasks.getList with
ServerLists ==
  { l \in UNION { [1..n -> Tasks] : n \in 0..MaxIndex } :
      \A i, j \in DOMAIN l : l[i] = l[j] => i = j }

\* the store after "new RTMTask(...)" for the first k tasks of the answer:
\* each constructor calls getIndex(userId, this)
RECURSIVE Refresh(_, _, _, _)
Refresh(c, userId, list, k) ==
  IF k = 0 THEN c
  ELSE CacheAfterGetIndex(Refresh(c, userId, list, k - 1), userId, list[k])

\* the last getIndex call after the constructors of the whole answer
LastAfterRefresh(l, c, userId, list) ==
  IF list = << >> THEN l
  ELSE LET before == Refresh(c, userId, list, Len(list) - 1)
           task == list[Len(list)]
       IN [userId |-> userId, index |-> IndexOf(before, userId, task),
           minted |-> MatchingIndices(getUser(before, userId), task) = {}]

\* _getTaskInfo after the refresh: "tasks[i].task_id === taskId", taskId
\* being what getTaskId returned before the refresh
TaskInfoMatches(list, taskId) ==
  { k \in DOMAIN list : StrictEq(parseFloat(list[k].task_id), taskId) }

\* the ids _getTaskInfo hands to its callback for tasks[k]
TaskIds(task) ==
  <<parseFloat(task.list_id), parseFloat(task.taskseries_id),
    parseFloat(task.task_id)>>

\* the three lookups of _getTaskInfo; none of them assigns to CACHE or
\* writes the file
LookupIndex(userId, taskIndex) ==
  /\ found' = [userId |-> userId, taskIndex |-> taskIndex,
               had |-> userId \in DOMAIN CACHE.USERS,
               ids |-> <<getListId(CACHE, userId, taskIndex),
                         getTaskSeriesId(CACHE, userId, taskIndex),
                         getTaskId(CACHE, userId, taskIndex)>>]
  /\ UNCHANGED coreVars
  /\ UNCHANGED schedVars

\* "listId !== undefined && taskSeriesId !== undefined && taskId !== undefined"
AllFound(ids) == \A k \in 1..3 : ids[k] # Undefined

\* an index-based operation (complete, remove, priority, ...) is called:
\* _getTaskInfo looks the index up; with all ids found the operation sends
\* its request, otherwise user.tasks.get() is called
OpCall(userId, taskIndex) ==
  /\ op.pc = "idle"
  /\ LookupIndex(userId, taskIndex)
  /\ op' = IF AllFound(Lookup(CACHE, userId, taskIndex))
             THEN [IdleOp EXCEPT !.pc = "sent", !.sent = 1,
                                 !.req = Lookup(CACHE, userId, taskIndex)]
             ELSE [IdleOp EXCEPT !.pc = "fetching", !.fetches = 1]

\* Refreshed without the call of taskIds.save()
RefreshedNoSave(userId, list) ==
  /\ Cardinality(DOMAIN getUser(Refresh(CACHE, userId, list, Len(list)), userId))
       <= MaxIndex
  /\ CACHE' = Refresh(CACHE, userId, list, Len(list))
  /\ last' = LastAfterRefresh(last, CACHE, userId, list)
  /\ UNCHANGED <<file, required>>
  /\ UNCHANGED schedVars

\* helper.get's response handler for a rtm.tasks.getList answer: the
\* RTMTask constructors, then taskIds.save()
Refreshed(userId, list) ==
  /\ Cardinality(DOMAIN getUser(Refresh(CACHE, userId, list, Len(list)), userId))
       <= MaxIndex
  /\ CACHE' = Refresh(CACHE, userId, list, Len(list))
  /\ last' = LastAfterRefresh(last, CACHE, userId, list)
  /\ file' = [exists |-> TRUE,
              data |-> Stringify(Refresh(CACHE, userId, list, Len(list)))]
  /\ UNCHANGED required
  /\ UNCHANGED schedVars

\* the same handler when fs.writeFileSync throws: the constructors have
\* run, the file is as before, and the exception leaves the handler
RefreshedSaveThrows(userId, list) ==
  /\ Cardinality(DOMAIN getUser(Refresh(CACHE, userId, list, Len(list)), userId))
       <= MaxIndex
  /\ CACHE' = Refresh(CACHE, userId, list, Len(list))
  /\ last' = LastAfterRefresh(last, CACHE, userId, list)
  /\ UNCHANGED <<file, required>>
  /\ UNCHANGED schedVars

\* the refresh of _getTaskInfo succeeded: the task is searched in the answer;
\* found, the operation sends its request with the task's ids, else the
\* callback is given errors.referenceError()
OpFetched(list) ==
  /\ op.pc = "fetching"
  /\ Refreshed(found.userId, list)
  /\ LET m == TaskInfoMatches(list, found.ids[3])
     IN op' = IF m # {}
                THEN [op EXCEPT !.pc = "sent", !.sent = @ + 1,
                                !.req = TaskIds(list[Min(m)])]
                ELSE [op EXCEPT !.pc = "done", !.cb = @ + 1,
                                !.err = "reference"]
  /\ UNCHANGED found

\* the refresh of _getTaskInfo, with save() throwing in helper.get: no
\* callback is called
OpFetchedSaveThrows(list) ==
  /\ op.pc = "fetching"
  /\ RefreshedSaveThrows(found.userId, list)
  /\ op' = [op EXCEPT !.pc = "thrown", !.thrownFor = found.userId,
                       !.thrownIn = list]
  /\ UNCHANGED found

\* the refresh failed in rtm.tasks.getList: nothing was indexed, and the
\* callback is given the error of the request
OpTasksFailed ==
  /\ op.pc = "fetching"
  /\ op' = [op EXCEPT !.pc = "done", !.cb = @ + 1, !.err = "fetch"]
  /\ UNCHANGED <<coreVars, found>>
  /\ UNCHANGED schedVars

\* the refresh failed in rtm.lists.getList while rtm.tasks.getList was
\* answered: the tasks were indexed and saved, and the callback is given
\* the error of the lists request
OpListsFailed(list) ==
  /\ op.pc = "fetching"
  /\ Refreshed(found.userId, list)
  /\ op' = [op EXCEPT !.pc = "done", !.cb = @ + 1, !.err = "fetch"]
  /\ UNCHANGED found

\* the server answered the request of the operation: its callback is called
OpResponded(ok) ==
  /\ op.pc = "sent"
  /\ op' = [op EXCEPT !.pc = "done", !.cb = @ + 1,
                       !.err = IF ok THEN "none" ELSE "request"]
  /\ UNCHANGED <<coreVars, found>>
  /\ UNCHANGED schedVars

\* the callback of the operation returns
OpReturn ==
  /\ op.pc = "done"
  /\ op' = IdleOp
  /\ found' = NoLookup
  /\ UNCHANGED coreVars
  /\ UNCHANGED schedVars

\* user.tasks.get() called by the application, answered by the server
Fetch(userId, list) ==
  /\ op.pc = "idle"
  /\ Refreshed(userId, list)
  /\ UNCHANGED <<found, op>>

\* user.tasks.get() called by the application, with save() throwing in
\* helper.get: the callback of the fetch is not called
FetchSaveThrows(userId, list) ==
  /\ op.pc = "idle"
  /\ RefreshedSaveThrows(userId, list)
  /\ op' = [op EXCEPT !.pc = "thrown", !.thrownFor = userId, !.thrownIn = list]
  /\ UNCHANGED found

\* user.clearTaskIndexCache() called by the application
OpClear(userId) ==
  /\ op.pc = "idle"
  /\ Clear(userId)
  /\ UNCHANGED <<found, op>>

\* the process ends, by itself or by the uncaught exception, and a new one
\* starts
OpRestart ==
  /\ op.pc \in {"idle", "thrown"}
  /\ Restart
  /\ op' = IdleOp
  /\ found' = NoLookup

\* ------------------------------------------------------------------------
\* utils/get.js: the throttle of get()
\* ------------------------------------------------------------------------

\* the minimum interval between the requests of a user (ms): get() reads it
\* as config.api.timeout from rtm.json; the repository's config.js holds the
\* setting as api.rate.timeout
ApiTimeout == 1000

\* the RTMUser objects of the process; NoUser is a get() without a user
UserObjs == {"A", "B"}

NoUser == "none"

NotSet == [def |-> FALSE, t |-> 0]

\* TimeoutFor without the comparison of now with next
TimeoutForNoClamp(n, next) ==
  IF next.def THEN next.t - n ELSE 0

\* "timeout = now < next ? next - now : 0" when next is defined, else 0
TimeoutFor(n, next) ==
  IF next.def THEN (IF n < next.t THEN next.t - n ELSE 0) ELSE 0

\* GetTimeout that makes a call without a user wait for the first user
GetTimeoutBehindUser(user, n, nr) ==
  IF user = NoUser
    THEN TimeoutFor(n, nr[CHOOSE u \in UserObjs : TRUE])
    ELSE TimeoutFor(n, nr[user])

\* the timeout get() computes for the user argument
GetTimeout(user, n, nr) ==
  IF user = NoUser THEN 0 ELSE TimeoutFor(n, nr[user])

\* NextRequestValue without the timeout of the call itself
NextRequestValueNoTimeout(n, timeout) == [def |-> TRUE, t |-> n + ApiTimeout]

\* "args.user._nextRequest = now + timeout + config.api.timeout"
NextRequestValue(n, timeout) == [def |-> TRUE, t |-> n + timeout + ApiTimeout]

\* NextRequestAfterGet with one timestamp shared by all users
NextRequestAfterGetShared(user, n, nr) ==
  IF user = NoUser THEN nr
  ELSE [u \in DOMAIN nr |-> NextRequestValue(n, TimeoutFor(n, nr[user]))]

\* the _nextRequest fields after get(): only the calling user's is written
NextRequestAfterGet(user, n, nr) ==
  IF user = NoUser THEN nr
  ELSE [nr EXCEPT ![user] = NextRequestValue(n, TimeoutFor(n, nr[user]))]

\* ArmTimer that makes no request when there is nothing to wait for
ArmTimerWhenWaiting(ts, c, timeout) == IF timeout > 0 THEN ts \cup {c} ELSE ts

\* setTimeout(function() {...}, timeout) arms one timer for the call
ArmTimer(ts, c, timeout) == ts \cup {c}

\* DisarmTimer of a timer that stays armed after it has run (setInterval)
DisarmTimerKeep(ts, c) == ts

\* a timer that has run is disarmed (setTimeout, not setInterval)
DisarmTimer(ts, c) == ts \ {c}

\* the clock reading the call's timer was armed for
Due(c) == calls[c].at + calls[c].timeout

\* TimerReady for a timer armed without its delay
TimerReadyNoDelay(c, n) == n >= calls[c].at

\* a timer runs no earlier than the delay it was armed with, and possibly later
TimerReady(c, n) == n >= calls[c].at + calls[c].timeout

SchedInit ==
  /\ now = 0
  /\ nextRequest = [u \in UserObjs |-> NotSet]
  /\ calls = << >>
  /\ timers = {}

\* get(method, params, user, client, callback)
Get(user) ==
  LET timeout == GetTimeout(user, now, nextRequest)
      c == Len(calls) + 1
  IN /\ Len(calls) < MaxCalls
     /\ now + timeout <= MaxTime
     /\ nextRequest' = NextRequestAfterGet(user, now, nextRequest)
     /\ calls' = Append(calls, [user |-> user, at |-> now, timeout |-> timeout,
                                fired |-> 0, firedAt |-> 0])
     /\ timers' = ArmTimer(timers, c, timeout)
     /\ UNCHANGED now
     /\ UNCHANGED idxVars

\* the timer of call c runs its callback: _makeRequest dispatches the request
Fire(c) ==
  /\ c \in timers
  /\ TimerReady(c, now)
  /\ timers' = DisarmTimer(timers, c)
  /\ calls' = [calls EXCEPT ![c].fired = @ + 1, ![c].firedAt = now]
  /\ UNCHANGED <<now, nextRequest>>
  /\ UNCHANGED idxVars

\* what _makeRequest gives the callback: the parsed answer (ok), the parsed
\* answer of a failed API call (fail), rateLimitError for status 503,
\* serverError for another 5xx status, networkError for a request error
Outcomes == {"ok", "fail", "rateLimit", "server", "network"}

\* TimersAfterResponse for a _makeRequest that makes the request again when
\* the server answers 503
TimersAfterResponseRetry(ts, c, outcome) ==
  IF outcome = "rateLimit" THEN ts \cup {c} ELSE ts

\* the timers after _makeRequest has called the callback: _makeRequest
\* calls neither setTimeout nor get(), whatever the outcome
TimersAfterResponse(ts, c, outcome) == ts

\* the request of call c is answered: _makeRequest calls the callback with
\* the outcome; it has no reference to the user
Respond(c, outcome) ==
  /\ c \in DOMAIN calls
  /\ calls[c].fired >= 1
  /\ c \notin answered
  /\ answered' = answered \cup {c}
  /\ UNCHANGED tg
  /\ timers' = TimersAfterResponse(timers, c, outcome)
  /\ UNCHANGED <<now, nextRequest, calls>>
  /\ UNCHANGED <<coreVars, watchVars, reuseVars, durVars, opVars>>

\* time passes, up to the last clock reading of the model
Tick ==
  /\ now < MaxTime
  /\ now' = IF now + TickMs <= MaxTime THEN now + TickMs ELSE MaxTime
  /\ UNCHANGED <<nextRequest, calls, timers>>
  /\ UNCHANGED idxVars

\* ------------------------------------------------------------------------
\* Specifications
\* ------------------------------------------------------------------------

\* the index store alone
Init == IdxInit /\ HistIdle /\ SchedInit

Next ==
  \/ \E userId \in UserIds, task \in Tasks :
       GetIndex(userId, task) /\ UNCHANGED histVars
  \/ Save /\ UNCHANGED histVars
  \/ \E userId \in UserIds : Clear(userId) /\ UNCHANGED histVars
  \/ Restart /\ UNCHANGED histVars

Spec == Init /\ [][Next]_vars

\* the index store with the history of the getIndex calls of one watched
\* (user, task) pair
HistInit ==
  /\ IdxInit
  /\ watch \in [u : UserIds, task : Tasks]
  /\ first = 0
  /\ firstU = 0
  /\ cleared = {}
  /\ scen = 0
  /\ mintedSince = {}
  /\ atSave = EmptyStore
  /\ found = NoLookup
  /\ op = IdleOp
  /\ answered = {}
  /\ tg = IdleGetState
  /\ SchedInit

HistGetIndex(userId, task) ==
  /\ GetIndex(userId, task)
  /\ first' = IF watch = [u |-> userId, task |-> task] /\ first = 0
                THEN IndexOf(CACHE, userId, task) ELSE first
  /\ firstU' = IF watch = [u |-> userId, task |-> task] /\ firstU = 0
                 THEN IndexOf(CACHE, userId, task) ELSE firstU
  /\ UNCHANGED watch
  /\ UNCHANGED <<reuseVars, durVars, opVars, respVars>>

HistSave == Save /\ UNCHANGED histVars

HistClear(userId) ==
  /\ Clear(userId)
  /\ first' = 0
  /\ firstU' = IF userId = watch.u THEN 0 ELSE firstU
  /\ UNCHANGED watch
  /\ UNCHANGED <<reuseVars, durVars, opVars, respVars>>

HistRestart ==
  /\ Restart
  /\ first' = 0
  /\ firstU' = 0
  /\ UNCHANGED watch
  /\ UNCHANGED <<reuseVars, durVars, opVars, respVars>>

HistNext ==
  \/ \E userId \in UserIds, task \in Tasks : HistGetIndex(userId, task)
  \/ HistSave
  \/ \E userId \in UserIds : HistClear(userId)
  \/ HistRestart

HistSpec == HistInit /\ [][HistNext]_vars

\* the index-reuse scenario: from an empty store, for user 42, assign a
\* first entry, assign a second entry, assign the first entry again,
\* clear(42), assign the first entry once more
ScenUser == 42

ScenEntry1 == [list_id |-> Num(1), taskseries_id |-> Num(10), task_id |-> Num(100)]

ScenEntry2 == [list_id |-> Num(1), taskseries_id |-> Num(11), task_id |-> Num(101)]

ScenOps ==
  << [op |-> "getIndex", task |-> ScenEntry1],
     [op |-> "getIndex", task |-> ScenEntry2],
     [op |-> "getIndex", task |-> ScenEntry1],
     [op |-> "clear", task |-> ScenEntry1],
     [op |-> "getIndex", task |-> ScenEntry1] >>

\* scen after one more operation
ScenStep(k, name, userId, task) ==
  IF /\ k # ScenOff
     /\ k < Len(ScenOps)
     /\ userId = ScenUser
     /\ ScenOps[k + 1].op = name
     /\ name = "getIndex" => ScenOps[k + 1].task = task
    THEN k + 1
    ELSE ScenOff

\* the index store with the history of the clear calls and of the scenario
ReuseGetIndex(userId, task) ==
  /\ GetIndex(userId, task)
  /\ cleared' = cleared \ {userId}
  /\ scen' = ScenStep(scen, "getIndex", userId, task)
  /\ UNCHANGED <<watchVars, durVars, opVars, respVars>>

ReuseSave ==
  /\ Save
  /\ scen' = ScenOff
  /\ UNCHANGED <<cleared, watchVars, durVars, opVars, respVars>>

ReuseClear(userId) ==
  /\ Clear(userId)
  /\ cleared' = cleared \cup {userId}
  /\ scen' = ScenStep(scen, "clear", userId, ScenEntry1)
  /\ UNCHANGED <<watchVars, durVars, opVars, respVars>>

ReuseRestart ==
  /\ Restart
  /\ scen' = ScenOff
  /\ UNCHANGED <<cleared, watchVars, durVars, opVars, respVars>>

ReuseNext ==
  \/ \E userId \in UserIds, task \in Tasks : ReuseGetIndex(userId, task)
  \/ ReuseSave
  \/ \E userId \in UserIds : ReuseClear(userId)
  \/ ReuseRestart

ReuseSpec == Init /\ [][ReuseNext]_vars

\* the index store with the history of what was created since the last
\* write of the file
DurGetIndex(userId, task) ==
  /\ GetIndex(userId, task)
  /\ mintedSince' =
       IF MatchingIndices(getUser(CACHE, userId), task) = {}
         THEN mintedSince \cup {<<userId, IndexOf(CACHE, userId, task)>>}
         ELSE mintedSince
  /\ UNCHANGED <<atSave, watchVars, reuseVars, opVars, respVars>>

DurSave ==
  /\ Save
  /\ mintedSince' = {}
  /\ atSave' = CACHE
  /\ UNCHANGED <<watchVars, reuseVars, opVars, respVars>>

DurClear(userId) ==
  /\ Clear(userId)
  /\ mintedSince' = {}
  /\ atSave' = CACHE'
  /\ UNCHANGED <<watchVars, reuseVars, opVars, respVars>>

DurRestart ==
  /\ Restart
  /\ mintedSince' = {}
  /\ UNCHANGED <<atSave, watchVars, reuseVars, opVars, respVars>>

DurNext ==
  \/ \E userId \in UserIds, task \in Tasks : DurGetIndex(userId, task)
  \/ DurSave
  \/ \E userId \in UserIds : DurClear(userId)
  \/ DurRestart

DurSpec == Init /\ [][DurNext]_vars

\* the task operations by index, with the fetches that fill the store
OpNext ==
  \/ \E userId \in UserIds, taskIndex \in 1..(MaxIndex + 1) :
       OpCall(userId, taskIndex) /\ UNCHANGED <<watchVars, reuseVars, durVars, respVars>>
  \/ \E list \in ServerLists :
       OpFetched(list) /\ UNCHANGED <<watchVars, reuseVars, durVars, respVars>>
  \/ \E list \in ServerLists :
       OpFetchedSaveThrows(list) /\ UNCHANGED <<watchVars, reuseVars, durVars, respVars>>
  \/ OpTasksFailed /\ UNCHANGED <<watchVars, reuseVars, durVars, respVars>>
  \/ \E list \in ServerLists :
       OpListsFailed(list) /\ UNCHANGED <<watchVars, reuseVars, durVars, respVars>>
  \/ \E ok \in BOOLEAN :
       OpResponded(ok) /\ UNCHANGED <<watchVars, reuseVars, durVars, respVars>>
  \/ OpReturn /\ UNCHANGED <<watchVars, reuseVars, durVars, respVars>>
  \/ \E userId \in UserIds, list \in ServerLists :
       Fetch(userId, list) /\ UNCHANGED <<watchVars, reuseVars, durVars, respVars>>
  \/ \E userId \in UserIds, list \in ServerLists :
       FetchSaveThrows(userId, list) /\ UNCHANGED <<watchVars, reuseVars, durVars, respVars>>
  \/ \E userId \in UserIds :
       OpClear(userId) /\ UNCHANGED <<watchVars, reuseVars, durVars, respVars>>
  \/ OpRestart /\ UNCHANGED <<watchVars, reuseVars, durVars, respVars>>

OpSpec == Init /\ [][OpNext]_vars

\* the throttle alone
SchedInitAll == IdxInit /\ HistIdle /\ SchedInit

SchedNext ==
  \/ \E user \in UserObjs \cup {NoUser} : Get(user)
  \/ \E c \in 1..MaxCalls : Fire(c)
  \/ Tick

SchedSpec == SchedInitAll /\ [][SchedNext]_vars

\* the throttle for the calls made with a user, when time passes and every
\* armed timer eventually runs
FairSchedNext ==
  \/ \E user \in UserObjs : Get(user)
  \/ \E c \in 1..MaxCalls : Fire(c)
  \/ Tick

\* the throttle of one RTMUser object with the answers to the requests
RespUser == CHOOSE user \in UserObjs : TRUE

RespNext ==
  \/ Get(RespUser)
  \/ \E c \in 1..MaxCalls : Fire(c)
  \/ \E c \in 1..MaxCalls, outcome \in Outcomes : Respond(c, outcome)
  \/ Tick

RespSpec == SchedInitAll /\ [][RespNext]_vars

FairSchedSpec ==
  /\ SchedInitAll
  /\ [][FairSchedNext]_vars
  /\ WF_vars(Tick)
  /\ \A c \in 1..MaxCalls : WF_vars(Fire(c))

\* ------------------------------------------------------------------------
\* Properties of the index store
\* ------------------------------------------------------------------------

\* the user's table holds the entry of the task under some index
Assigned(c, userId, task) ==
  \E i \in DOMAIN getUser(c, userId) : getUser(c, userId)[i] = NewEntry(task)

\* C1 (Stability): once getIndex(U, E) has returned an index, then as long as
\* only getIndex, lookup and save operations follow, a call getIndex(U, E)
\* returns that same index, whatever else was assigned in between.
C1_Stability ==
  first # 0 => IndexOf(CACHE, watch.u, watch.task) = first

\* C1 witness: getIndex(U, E) returned 1, another entry of U was assigned and
\* saved, and the last call, a repeated getIndex(U, E), returned 1 again.
C1_Witness ==
  /\ first = 1
  /\ Cardinality(DOMAIN getUser(CACHE, watch.u)) >= 2
  /\ file.exists /\ file.data = Stringify(CACHE)
  /\ last = [userId |-> watch.u, index |-> 1, minted |-> FALSE]

\* C2 (Uniqueness): no two distinct indices of a user hold equal entries, and
\* once getIndex(U, E) has returned an index, no getIndex(U, E2) with another
\* entry E2 returns that index unless clear(U) was called in between.
C2_Uniqueness ==
  /\ \A u \in DOMAIN CACHE.USERS : \A i, j \in DOMAIN CACHE.USERS[u] :
        CACHE.USERS[u][i] = CACHE.USERS[u][j] => i = j
  /\ firstU # 0 =>
        \A task \in Tasks \ {watch.task} : IndexOf(CACHE, watch.u, task) # firstU

\* C3 (Minimality): a getIndex(U, E) call with E not in U's table returns the
\* smallest n >= 1 that is not a key of U's table, and U's table then maps n
\* to E.
C3_Minimality ==
  [][\A userId \in UserIds, task \in Tasks :
       (~Assigned(CACHE, userId, task) /\ GetIndex(userId, task)) =>
         LET keys == DOMAIN getUser(CACHE, userId)
             n == last'.index
         IN /\ last'.userId = userId
            /\ n >= 1
            /\ n \notin keys
            /\ \A m \in 1..(n - 1) : m \in keys
            /\ n \in DOMAIN getUser(CACHE', userId)
            /\ getUser(CACHE', userId)[n] = NewEntry(task)]_vars

\* C3 witness: the last getIndex call created index 2 in a table that held
\* index 1.
C3_Witness ==
  /\ last.userId \in UserIds
  /\ last.minted
  /\ last.index = 2
  /\ DOMAIN getUser(CACHE, last.userId) = {1, 2}

C10_ClearIsolation ==
  [][\A u1 \in UserIds :
       Clear(u1) =>
         \A u2 \in UserIds \ {u1} : \A i \in 1..(MaxIndex + 1) :
           Lookup(CACHE', u2, i) = Lookup(CACHE, u2, i)]_vars

\* the store a new process loads from the file
Reloaded(f) == ReadCache(EmptyStore, f, FALSE)

\* C11 (clear empties and persists): right after clear(U), every lookup of
\* an index of U gives undefined, the file has been rewritten, and a store
\* reloaded from the file has no index for U either.
C11_ClearEmptiesAndPersists ==
  [][\A u \in UserIds :
       Clear(u) =>
         /\ \A i \in 1..(MaxIndex + 1) :
               Lookup(CACHE', u, i) = <<Undefined, Undefined, Undefined>>
         /\ file'.exists
         /\ file'.data = Stringify(CACHE')
         /\ DOMAIN getUser(Reloaded(file'), u) = {}]_vars

\* C11 witness: the last getIndex call created an index for a user, and
\* since then the user's table has been emptied in memory and in the file.
C11_Witness ==
  /\ last.userId \in UserIds
  /\ last.minted
  /\ last.userId \in DOMAIN CACHE.USERS
  /\ DOMAIN getUser(CACHE, last.userId) = {}
  /\ file.exists
  /\ last.userId \in DOMAIN file.data.USERS
  /\ DOMAIN getUser(file.data, last.userId) = {}

\* the index each getIndex call of the scenario is expected to return
\* (the clear call returns none)
ScenExpected == <<1, 2, 1, 0, 1>>

\* C12 (Index reuse after clear): from an empty store the scenario's getIndex
\* calls for user 42 return 1, 2, 1 and, after clear(42), 1 again; and for
\* every user U the first getIndex call after clear(U) returns 1, whatever
\* save, clear of another user or process start came in between.
C12_ReuseAfterClear ==
  /\ [][(scen' # scen /\ scen' # ScenOff /\ ScenOps[scen'].op = "getIndex") =>
          last' = [userId |-> ScenUser, index |-> ScenExpected[scen'],
                   minted |-> scen' # 3]]_vars
  /\ [][\A u \in cleared : \A task \in Tasks :
          GetIndex(u, task) =>
            last' = [userId |-> u, index |-> 1, minted |-> TRUE]]_vars

\* C12 witness: the whole scenario has run, and its last call created
\* index 1 for user 42 again.
C12_Witness ==
  /\ scen = Len(ScenOps)
  /\ last = [userId |-> ScenUser, index |-> 1, minted |-> TRUE]
  /\ ScenUser \notin cleared

\* C13 (Lookup result): getListId, getTaskSeriesId and getTaskId of (U, i)
\* return the fields of the entry stored under index i of user U when there
\* is one, and undefined when U has no table or i is not a key of U's table;
\* the lookup leaves the store and the file as they were and creates no
\* table for a user that has none.
C13_LookupResult ==
  [][\A u \in UserIds : \A i \in 1..(MaxIndex + 1) :
       LookupIndex(u, i) =>
         /\ (u \in DOMAIN CACHE.USERS /\ i \in DOMAIN CACHE.USERS[u]) =>
               found'.ids = <<CACHE.USERS[u][i].list_id,
                              CACHE.USERS[u][i].taskseries_id,
                              CACHE.USERS[u][i].task_id>>
         /\ (u \notin DOMAIN CACHE.USERS \/ i \notin DOMAIN CACHE.USERS[u]) =>
               found'.ids = <<Undefined, Undefined, Undefined>>
         /\ CACHE' = CACHE
         /\ DOMAIN CACHE'.USERS = DOMAIN CACHE.USERS
         /\ file' = file]_vars

\* C13 witness: the lookups of the operation in progress were made for a
\* user without a table and returned undefined, the user still has no table,
\* and another user has two indices.
C13_Witness ==
  /\ found.userId \in UserIds
  /\ ~found.had
  /\ found.ids = <<Undefined, Undefined, Undefined>>
  /\ found.userId \notin DOMAIN CACHE.USERS
  /\ \E u \in DOMAIN CACHE.USERS : Cardinality(DOMAIN CACHE.USERS[u]) >= 2

C17_InMemoryOnly ==
  /\ [][\A u \in UserIds : \A task \in Tasks :
          GetIndex(u, task) => file' = file]_vars
  /\ [][file' # file => (Save \/ \E u \in UserIds : Clear(u))]_vars
  /\ [](\A p \in mintedSince :
          p[2] \notin DOMAIN getUser(Reloaded(file), p[1]))
  /\ [](\A u \in UserIds : \A i \in 1..(MaxIndex + 1) :
          Lookup(Reloaded(file), u, i) = Lookup(atSave, u, i))

\* C17 witness: a user has a saved index, and an index created after the
\* save which the file does not hold.
C17_Witness ==
  \E p \in mintedSince :
    /\ file.exists
    /\ DOMAIN getUser(file.data, p[1]) # {}
    /\ p[2] \in DOMAIN getUser(CACHE, p[1])
    /\ p[2] \notin DOMAIN getUser(file.data, p[1])

\* ------------------------------------------------------------------------
\* Properties of the task operations by index
\* ------------------------------------------------------------------------

\* the refresh of the operation was made and did not fail in a request
RefreshDone ==
  /\ op.fetches = 1
  /\ op.pc \in {"sent", "done"}
  /\ op.err # "fetch"

\* C14 (Refresh and retry): when the index of an operation is absent from
\* the table and the refresh gives that index to a task, the operation sends
\* its request with that task's list id, task-series id and task id instead
\* of reporting the reference error.
C14_RefreshAndRetry ==
  (RefreshDone /\ found.taskIndex \in DOMAIN getUser(CACHE, found.userId)) =>
    /\ op.sent = 1
    /\ op.err # "reference"
    /\ op.req = Lookup(CACHE, found.userId, found.taskIndex)

\* C15 (ReferenceNotFound is a value): an operation whose index is absent
\* from the table and is not resolved by the refresh calls its callback
\* exactly once with the reference error; no operation throws, makes more
\* than one refresh fetch or, when unresolved, sends a request.
C15_ReferenceErrorIsValue ==
  /\ op.pc = "thrown" => found = NoLookup
  /\ op.cb <= 1
  /\ op.fetches <= 1
  /\ (RefreshDone /\ found.taskIndex \notin DOMAIN getUser(CACHE, found.userId)) =>
        /\ op.pc = "done"
        /\ op.cb = 1
        /\ op.err = "reference"
        /\ op.sent = 0

\* C18 (Persistence failure does not roll back): when save() fails in a
\* fetch, the indices assigned by the fetch stay in the table, and the
\* caller of the fetch is given the failure through its callback.
C18_PersistFailure ==
  op.pc = "thrown" =>
    /\ \A k \in DOMAIN op.thrownIn : Assigned(CACHE, op.thrownFor, op.thrownIn[k])
    /\ op.cb = 1
    /\ op.err # "none"

\* ------------------------------------------------------------------------
\* Properties of the throttle
\* ------------------------------------------------------------------------

\* the pairs of calls made for the same user, the first one earlier
SameUserPairs ==
  { p \in (DOMAIN calls) \X (DOMAIN calls) :
      /\ p[1] < p[2]
      /\ calls[p[1]].user # NoUser
      /\ calls[p[1]].user = calls[p[2]].user }

\* C4 (Spacing of scheduled times): of two calls of one user, the later one
\* is scheduled (now + timeout) at least config.api.timeout after the
\* earlier one.
C4_ScheduledSpacing ==
  \A p \in SameUserPairs : Due(p[2]) >= Due(p[1]) + ApiTimeout

\* C4 witness: a user made a call, and a later call at a later clock reading
\* that still had to wait.
C4_Witness ==
  \E p \in SameUserPairs :
    /\ calls[p[2]].at > calls[p[1]].at
    /\ calls[p[2]].timeout > 0

\* C5 (No request dropped or duplicated): every get() call dispatches its
\* request eventually, and never more than once.
C5_ExactlyOnce ==
  /\ \A c \in 1..MaxCalls :
        [](c \in DOMAIN calls => <>(c \in DOMAIN calls /\ calls[c].fired = 1))
  /\ [](\A c \in DOMAIN calls : calls[c].fired <= 1)

\* C5 witness: three calls of one user were all made before the first of
\* them was dispatched, and each has been dispatched once.
C5_Witness ==
  /\ Len(calls) >= 3
  /\ \A c \in 1..3 : /\ calls[c].user = calls[1].user
                       /\ calls[c].fired = 1
                       /\ calls[c].at = calls[1].at
  /\ calls[1].user # NoUser
  /\ timers = {}

\* C6 (FIFO per user): of two calls of one user, the later one is not
\* dispatched while the earlier one is still waiting.
C6_Fifo ==
  \A p \in SameUserPairs : calls[p[2]].fired >= 1 => calls[p[1]].fired >= 1

\* C6 as amended: of two calls of one user, the later one is dispatched
\* while the earlier one is still waiting only when the earlier one's timer
\* is late by config.api.timeout or more.
C6_FifoUnlessLate ==
  \A p \in SameUserPairs :
    (calls[p[2]].fired >= 1 /\ calls[p[1]].fired = 0) =>
      now >= Due(p[1]) + ApiTimeout

\* C6 witness: the later of two calls of one user has been dispatched and the
\* earlier one has not.
C6_Witness ==
  \E p \in SameUserPairs : calls[p[2]].fired >= 1 /\ calls[p[1]].fired = 0

\* C7 (Spacing of fire times): of two dispatched calls of one user, the later
\* one was dispatched at least config.api.timeout after the earlier one.
C7_FireSpacing ==
  \A p \in SameUserPairs :
    (calls[p[1]].fired >= 1 /\ calls[p[2]].fired >= 1) =>
      calls[p[2]].firedAt >= calls[p[1]].firedAt + ApiTimeout

\* C7 as amended: of two calls of one user, the later one is dispatched at
\* least config.api.timeout after the clock reading the earlier one was
\* scheduled for.
C7_FireAfterScheduled ==
  \A p \in SameUserPairs :
    calls[p[2]].fired >= 1 => calls[p[2]].firedAt >= Due(p[1]) + ApiTimeout

\* C7 witness: two calls of one user made at the same clock reading have both
\* been dispatched, the second less than config.api.timeout after the
\* first.
C7_Witness ==
  \E p \in SameUserPairs :
    /\ calls[p[1]].at = calls[p[2]].at
    /\ calls[p[1]].fired = 1 /\ calls[p[2]].fired = 1
    /\ calls[p[2]].firedAt >= calls[p[1]].firedAt
    /\ calls[p[2]].firedAt < calls[p[1]].firedAt + ApiTimeout

\* the _nextRequest of a user after the first k calls, had only that user's
\* calls been made
RECURSIVE SoloNext(_, _)
SoloNext(user, k) ==
  IF k = 0 THEN NotSet
  ELSE IF calls[k].user = user
         THEN NextRequestValue(calls[k].at,
                               TimeoutFor(calls[k].at, SoloNext(user, k - 1)))
         ELSE SoloNext(user, k - 1)

\* C8 (Independence): a get() for one user leaves every other user's
\* _nextRequest as it was, and every call's timeout is the one it would have
\* had if only the calls of its own user had been made.
C8_Independence ==
  /\ [][\A b \in UserObjs \cup {NoUser} :
          Get(b) => \A a \in UserObjs \ {b} : nextRequest'[a] = nextRequest[a]]_vars
  /\ [](\A c \in DOMAIN calls :
          calls[c].user # NoUser =>
            calls[c].timeout = TimeoutFor(calls[c].at, SoloNext(calls[c].user, c - 1)))
  /\ [](\A a \in UserObjs : nextRequest[a] = SoloNext(a, Len(calls)))

\* C8 witness: a call of one user, then a call of another user, then a call
\* of the first user that had to wait.
C8_Witness ==
  /\ Len(calls) >= 3
  /\ calls[1].user \in UserObjs
  /\ calls[2].user \in UserObjs \ {calls[1].user}
  /\ calls[3].user = calls[1].user
  /\ calls[3].timeout > 0

\* the calls of the same user made earlier at the same clock reading
SameInstantBefore(c) ==
  { d \in 1..(c - 1) : calls[d].user = calls[c].user /\ calls[d].at = calls[c].at }

\* C19 (Delay computation): a get() call with a user at clock reading now gets
\* the delay max(0, _nextRequest - now), an unset _nextRequest counting as now,
\* and leaves _nextRequest = now + delay + config.api.timeout; so the calls a
\* user makes at one instant, the first of them with delay 0, get the delays
\* 0, config.api.timeout, 2 * config.api.timeout, ...
C19_DelayComputation ==
  /\ [][\A user \in UserObjs :
          Get(user) =>
            LET c == Len(calls) + 1
                next == IF nextRequest[user].def THEN nextRequest[user].t ELSE now
                delay == IF next - now > 0 THEN next - now ELSE 0
            IN /\ calls'[c].timeout = delay
               /\ nextRequest'[user].def
               /\ nextRequest'[user].t = now + delay + ApiTimeout]_vars
  /\ [](\A c \in DOMAIN calls :
          LET before == SameInstantBefore(c)
          IN (/\ calls[c].user # NoUser
              /\ calls[IF before = {} THEN c ELSE Min(before)].timeout = 0) =>
               calls[c].timeout = Cardinality(before) * ApiTimeout)

\* C19 witness: a user made three calls at the same instant, which got the
\* delays 0, config.api.timeout and 2 * config.api.timeout.
C19_Witness ==
  /\ Len(calls) >= 3
  /\ \A c \in 1..3 : /\ calls[c].user = calls[1].user
                       /\ calls[c].at = calls[1].at
                       /\ calls[c].timeout = (c - 1) * ApiTimeout
  /\ calls[1].user # NoUser

\* C20 (The scheduler ignores the response): whatever the outcome of a
\* dispatched request, answering it leaves every _nextRequest, every call and
\* every timer as it was; no request is dispatched twice; and _nextRequest
\* changes only in get().
C20_IgnoresResponse ==
  /\ [][\A c \in 1..MaxCalls : \A outcome \in Outcomes :
          Respond(c, outcome) =>
            /\ nextRequest' = nextRequest
            /\ calls' = calls
            /\ timers' = timers]_vars
  /\ [](\A c \in DOMAIN calls : calls[c].fired <= 1)
  /\ [][nextRequest' # nextRequest => \E user \in UserObjs : Get(user)]_vars

\* C20 witness: a request of a user has been answered while a later call of
\* the user still waits for its timer, and the user's _nextRequest is the
\* one the later call left.
C20_Witness ==
  \E p \in SameUserPairs :
    /\ p[1] \in answered
    /\ calls[p[1]].fired = 1
    /\ p[2] \in timers
    /\ calls[p[2]].fired = 0
    /\ p[2] = Len(calls)
    /\ nextRequest[calls[p[2]].user].t = Due(p[2]) + ApiTimeout


\* ------------------------------------------------------------------------
\* Entry variants: getIndex handed an object without taskseries_id and task_id
\* ------------------------------------------------------------------------

\* a task entry, carrying the three ids
VariantTask ==
  [list_id |-> Num(1), taskseries_id |-> Num(10), task_id |-> Num(100)]

\* a list entry: only list_id is present, so task.taskseries_id and
\* task.task_id read as undefined
VariantList ==
  [list_id |-> Num(1), taskseries_id |-> Undefined, task_id |-> Undefined]

VarEntries == {VariantTask, VariantList}

\* the three parseFloat results of getIndex are all numbers
IsTaskVariant(task) ==
  /\ parseFloat(task.list_id).t = "num"
  /\ parseFloat(task.taskseries_id).t = "num"
  /\ parseFloat(task.task_id).t = "num"

\* the index store handed entries of both variants, with the history of the
\* getIndex calls of one watched (user, entry) pair
VarInit ==
  /\ IdxInit
  /\ watch \in [u : UserIds, task : VarEntries]
  /\ first = 0
  /\ firstU = 0
  /\ cleared = {}
  /\ scen = 0
  /\ mintedSince = {}
  /\ atSave = EmptyStore
  /\ found = NoLookup
  /\ op = IdleOp
  /\ answered = {}
  /\ tg = IdleGetState
  /\ SchedInit

VarNext ==
  \/ \E userId \in UserIds, task \in VarEntries : HistGetIndex(userId, task)
  \/ HistSave
  \/ \E userId \in UserIds : HistClear(userId)
  \/ HistRestart

VarSpec == VarInit /\ [][VarNext]_vars

\* C21 (as stated): getIndex(U, E) called again with the same entry E returns
\* the index its first call returned, for a task entry and for a list entry
\* (only list_id present) alike.
C21_StabilityBothVariants ==
  (first # 0 /\ watch.task \in VarEntries) =>
    IndexOf(CACHE, watch.u, watch.task) = first

\* C21 (amended): a repeated getIndex(U, E) returns the index of the first
\* call exactly when E carries all three ids; for a list entry every call
\* returns an index different from the first one.
C21_StabilityOfTaskVariant ==
  first # 0 =>
    (IsTaskVariant(watch.task) <=>
       IndexOf(CACHE, watch.u, watch.task) = first)

\* the list entry was handed to getIndex twice and holds indices 1 and 2
C21_Witness ==
  /\ watch.task = VariantList
  /\ first = 1
  /\ last = [userId |-> watch.u, index |-> 2, minted |-> TRUE]
  /\ {1, 2} \subseteq DOMAIN getUser(CACHE, watch.u)
  /\ getUser(CACHE, watch.u)[1] = NewEntry(VariantList)
  /\ getUser(CACHE, watch.u)[2] = NewEntry(VariantList)


\* ------------------------------------------------------------------------
\* Entries that differ in one field
\* ------------------------------------------------------------------------

EqUser == 42

EqBase == [list_id |-> Num(1), taskseries_id |-> Num(10), task_id |-> Num(100)]

\* EqBase and the three tasks that differ from it in exactly one id
EqTasks ==
  { EqBase,
    [EqBase EXCEPT !.list_id = Num(2)],
    [EqBase EXCEPT !.taskseries_id = Num(11)],
    [EqBase EXCEPT !.task_id = Num(101)] }

EqNext ==
  \/ \E task \in EqTasks : GetIndex(EqUser, task) /\ UNCHANGED histVars
  \/ Save /\ UNCHANGED histVars
  \/ Clear(EqUser) /\ UNCHANGED histVars
  \/ Restart /\ UNCHANGED histVars

EqSpec == Init /\ [][EqNext]_vars

\* the indices of the user's table whose entry has the three ids of the task
SameIds(c, userId, task) ==
  { i \in DOMAIN getUser(c, userId) : getUser(c, userId)[i] = NewEntry(task) }

\* C22 (Three-field equality): getIndex returns an index already in the
\* table only when the entry stored there has the list id, the task-series
\* id and the task id of the entry it is given; an entry that differs from
\* every stored entry in at least one of the three ids gets an index that
\* was not in the table, and the stored entries stay where they are.
C22_ThreeFieldEquality ==
  [][\A task \in EqTasks :
       GetIndex(EqUser, task) =>
         IF SameIds(CACHE, EqUser, task) = {}
           THEN /\ last'.minted
                /\ last'.index \notin DOMAIN getUser(CACHE, EqUser)
                /\ \A i \in DOMAIN getUser(CACHE, EqUser) :
                     getUser(CACHE', EqUser)[i] = getUser(CACHE, EqUser)[i]
           ELSE /\ ~last'.minted
                /\ last'.index \in SameIds(CACHE, EqUser, task)]_vars

\* two entries with the same task-series id and task id in different lists
\* hold two indices
C22_Witness ==
  /\ DOMAIN getUser(CACHE, EqUser) = {1, 2}
  /\ getUser(CACHE, EqUser)[1] = NewEntry(EqBase)
  /\ getUser(CACHE, EqUser)[2] = NewEntry([EqBase EXCEPT !.list_id = Num(2)])
  /\ last = [userId |-> EqUser, index |-> 2, minted |-> TRUE]


\* C29 (Dense numbering): the indices of every user's table are exactly
\* 1..n, n the size of the table, and getIndex gives a new entry the index
\* n + 1.
C29_DenseNumbering ==
  /\ [](\A u \in DOMAIN CACHE.USERS :
          DOMAIN CACHE.USERS[u] = 1..Cardinality(DOMAIN CACHE.USERS[u]))
  /\ [][\A task \in EqTasks :
          (GetIndex(EqUser, task) /\ last'.minted) =>
            last'.index = Cardinality(DOMAIN getUser(CACHE, EqUser)) + 1]_vars

\* C29 witness: the user's table was cleared, and the two entries assigned
\* since then hold indices 1 and 2.
C29_Witness ==
  /\ DOMAIN getUser(CACHE, EqUser) = {1, 2}
  /\ last = [userId |-> EqUser, index |-> 2, minted |-> TRUE]
  /\ file.exists
  /\ EqUser \in DOMAIN file.data.USERS
  /\ DOMAIN file.data.USERS[EqUser] = {}

\* ------------------------------------------------------------------------
\* Properties of the table of indices
\* ------------------------------------------------------------------------

\* every entry of store c is in store d, under the same user and index
EntriesKept(c, d) ==
  \A u \in DOMAIN c.USERS : \A i \in DOMAIN c.USERS[u] :
    /\ u \in DOMAIN d.USERS
    /\ i \in DOMAIN d.USERS[u]
    /\ d.USERS[u][i] = c.USERS[u][i]

\* C23 (Entries are immutable once assigned): a getIndex call (for any user
\* and task) and a save() leave every index of every user holding the entry
\* it held; only clear removes entries.  (The lookups are reads: getTaskId,
\* getTaskSeriesId and getListId assign nothing.)
C23_EntriesImmutable ==
  [][((\E u \in UserIds, task \in Tasks : GetIndex(u, task)) \/ Save)
       => EntriesKept(CACHE, CACHE')]_vars

\* C23 witness: index 1 of user 42 holds its entry after a later getIndex
\* created index 2 and a save() wrote both.
C23_Witness ==
  /\ DOMAIN getUser(CACHE, 42) = {1, 2}
  /\ last = [userId |-> 42, index |-> 2, minted |-> TRUE]
  /\ file = [exists |-> TRUE, data |-> Stringify(CACHE)]
  /\ getUser(CACHE, 42)[1] # getUser(CACHE, 42)[2]

\* ------------------------------------------------------------------------
\* Properties of the throttle: calls without a user, objects of one user id
\* ------------------------------------------------------------------------

\* C30: a get() without a user (RTMClient.get, e.g. rtm.auth.getFrob) is
\* never throttled: its timeout is 0 whatever calls are waiting, and it
\* leaves every user's _nextRequest as it was.
C30_NoUserNotThrottled ==
  /\ [][Get(NoUser) =>
          /\ nextRequest' = nextRequest
          /\ calls'[Len(calls')].user = NoUser
          /\ calls'[Len(calls')].timeout = 0]_vars
  /\ [](\A c \in DOMAIN calls :
          calls[c].user = NoUser =>
            (calls[c].timeout = 0 /\ Due(c) = calls[c].at))

\* C30 witness: a call without a user was made while a user's call was
\* waiting for its timer, and its request went out before that timer ran.
C30_Witness ==
  \E c \in DOMAIN calls : \E d \in DOMAIN calls :
    /\ c < d
    /\ calls[c].user \in UserObjs
    /\ calls[c].timeout > 0
    /\ c \in timers
    /\ calls[d].user = NoUser
    /\ calls[d].at < Due(c)
    /\ calls[d].fired = 1

\* the id of an RTMUser made by user.create(id, ...)
CreatedId(id) == parseFloat(Num(id))

\* the id of the RTMUser made by user.importFromString(user.exportToString(u))
\* for a user u of the given id: JSON.stringify and JSON.parse of the id,
\* then the constructor's parseFloat
ImportedId(id) == parseFloat(ToJSON(id))

\* the ids of the RTMUser objects when "A" is created with id 42 and "B" is
\* imported from the exported string of "A"
ObjIds ==
  [o \in UserObjs |->
     IF o = CHOOSE u \in UserObjs : TRUE
       THEN CreatedId(42) ELSE ImportedId(CreatedId(42))]

\* C25: two calls made for the same user id are scheduled at least
\* config.api.timeout apart, also when they are made through two RTMUser
\* objects that carry that id.
C25_SpacingByUserId ==
  \A c \in DOMAIN calls : \A d \in DOMAIN calls :
    (/\ c < d
     /\ calls[c].user \in UserObjs
     /\ calls[d].user \in UserObjs
     /\ ObjIds[calls[c].user] = ObjIds[calls[d].user])
    => Due(d) >= Due(c) + ApiTimeout


\* ------------------------------------------------------------------------
\* The states of a user's throttle
\* ------------------------------------------------------------------------

\* a get() whose next allowed time lies within the clock readings of the
\* model, so that the clock can reach it
IdleGet(user) == Get(user) /\ nextRequest'[user].t <= MaxTime

IdleNext ==
  \/ \E user \in UserObjs : IdleGet(user)
  \/ \E c \in 1..MaxCalls : Fire(c)
  \/ Tick

\* time passes and every armed timer eventually runs
IdleSpec ==
  /\ SchedInitAll
  /\ [][IdleNext]_vars
  /\ WF_vars(Tick)
  /\ \A c \in 1..MaxCalls : WF_vars(Fire(c))

\* the calls of the user whose timer has not run yet
Waiting(user) == { c \in timers : calls[c].user = user }

\* "next === undefined" or the next allowed time is not after now
NextAllowedPassed(user) ==
  nextRequest[user].def => nextRequest[user].t <= now

\* IDLE: no call of the user waits and its next allowed time has passed
Idle(user) == Waiting(user) = {} /\ NextAllowedPassed(user)

\* C24 (Return to IDLE): once no further call is made for a user, the user
\* eventually is IDLE and stays so; while a call of the user waits on a
\* positive delay that has not elapsed, the user's next allowed time is in
\* the future, and a call stops waiting exactly when its timer runs.
C24_ReturnToIdle ==
  /\ \A user \in UserObjs : <>[]Idle(user)
  /\ [](\A c \in timers :
          (calls[c].timeout > 0 /\ now < Due(c)) =>
            ~NextAllowedPassed(calls[c].user))
  /\ [][\A c \in 1..MaxCalls :
          (c \in timers /\ c \notin timers') <=> Fire(c)]_vars

\* C24 witness: a call of a user waited on a positive delay, its timer has
\* run, and the user is IDLE again.
C24_Witness ==
  \E c \in DOMAIN calls :
    /\ calls[c].timeout > 0
    /\ calls[c].fired = 1
    /\ nextRequest[calls[c].user].def
    /\ Idle(calls[c].user)


\* ------------------------------------------------------------------------
\* user/tasks.js: user.tasks.get() with its two concurrent requests, and
\* user.tasks.getTask()
\* ------------------------------------------------------------------------

\* the user whose tasks are fetched
GetUserIds == {42}

\* a new user.tasks.get() call of the given stage: count = 0, returned =
\* false, TASKS = [], both requests sent
NewFetch(g, stage, want) ==
  [g EXCEPT !.pc = "waiting", !.stage = stage, !.want = want,
            !.lists = "pending", !.tasks = "pending",
            !.count = 0, !.returned = FALSE, !.TASKS = << >>,
            !.cb = 0, !.err = "none", !.firstErr = "none"]

\* the callback of getTask is called with an error
OutError(g, e) == [g EXCEPT !.out = @ + 1, !.outErr = e]

\* what the caller of user.tasks.get() does in its callback.  The
\* application (stage "get") has the result.  _getTaskInfo (stage "info")
\* passes an error on, searches the task by "tasks[i].task_id === taskId",
\* and with a match getTask starts its own fetch.  getTask (stage "task")
\* passes an error on, and calls back with the first task whose task_id is
\* the wanted one, or with errors.referenceError()
Deliver(g) ==
  IF g.stage = "get" THEN g
  ELSE IF g.err # "none" THEN OutError(g, "fetch")
  ELSE LET m == TaskInfoMatches(g.TASKS, g.want[3])
       IN IF m = {} THEN OutError(g, "reference")
          ELSE IF g.stage = "info"
            THEN NewFetch(g, "task", TaskIds(g.TASKS[Min(m)]))
            ELSE [g EXCEPT !.out = @ + 1, !.outTask = <<g.TASKS[Min(m)]>>]

\* _tasksUpdateCallback(err)
UpdateCallback(g, err) ==
  LET g1 == [g EXCEPT !.count = @ + 1]
  IN IF g1.returned THEN g1
     ELSE IF err # "none"
       THEN Deliver([g1 EXCEPT !.returned = TRUE, !.cb = @ + 1, !.err = err])
       ELSE IF g1.count = 2
         THEN Deliver([g1 EXCEPT !.returned = TRUE, !.cb = @ + 1])
         ELSE g1

\* the first request that failed
FirstErr(g, e) == IF g.firstErr = "none" THEN e ELSE g.firstErr

\* the history variables user/tasks.js has nothing to do with
GetFrame == UNCHANGED <<watchVars, reuseVars, durVars, opVars, answered>>

\* the application calls user.tasks.get()
TasksGet(userId) ==
  /\ tg.pc = "idle"
  /\ tg' = NewFetch([IdleGetState EXCEPT !.userId = userId], "get", tg.want)
  /\ UNCHANGED coreVars
  /\ UNCHANGED schedVars
  /\ GetFrame

\* the application calls user.tasks.getTask(index): _getTaskInfo looks the
\* index up and calls back with the ids when all are found, then getTask
\* fetches; otherwise _getTaskInfo fetches
GetTask(userId, taskIndex) ==
  /\ tg.pc = "idle"
  /\ tg' = NewFetch([IdleGetState EXCEPT !.userId = userId],
                    IF AllFound(Lookup(CACHE, userId, taskIndex))
                      THEN "task" ELSE "info",
                    Lookup(CACHE, userId, taskIndex))
  /\ UNCHANGED coreVars
  /\ UNCHANGED schedVars
  /\ GetFrame

\* rtm.lists.getList is answered, with the lists or with an error
ListsArrived(ok) ==
  /\ tg.pc = "waiting"
  /\ tg.lists = "pending"
  /\ tg' = IF ok
             THEN UpdateCallback([tg EXCEPT !.lists = "ok"], "none")
             ELSE UpdateCallback([tg EXCEPT !.lists = "err",
                                            !.firstErr = FirstErr(tg, "lists")],
                                 "lists")
  /\ UNCHANGED coreVars
  /\ UNCHANGED schedVars
  /\ GetFrame

\* rtm.tasks.getList is answered with the tasks: helper.get makes the
\* RTMTask objects, saves the indices, and calls back
TasksArrived(list) ==
  /\ tg.pc = "waiting"
  /\ tg.tasks = "pending"
  /\ Refreshed(tg.userId, list)
  /\ tg' = UpdateCallback([tg EXCEPT !.tasks = "ok", !.TASKS = list], "none")
  /\ GetFrame

\* rtm.tasks.getList is answered with the tasks and taskIds.save() throws in
\* helper.get: no callback is called, the exception is uncaught
TasksSaveThrows(list) ==
  /\ tg.pc = "waiting"
  /\ tg.tasks = "pending"
  /\ RefreshedSaveThrows(tg.userId, list)
  /\ tg' = [tg EXCEPT !.pc = "thrown", !.tasks = "thrown", !.TASKS = list]
  /\ GetFrame

\* rtm.tasks.getList fails: helper.get calls back with the error
TasksFailed ==
  /\ tg.pc = "waiting"
  /\ tg.tasks = "pending"
  /\ tg' = UpdateCallback([tg EXCEPT !.tasks = "err",
                                     !.firstErr = FirstErr(tg, "tasks")],
                          "tasks")
  /\ UNCHANGED coreVars
  /\ UNCHANGED schedVars
  /\ GetFrame

\* both requests have been answered and the callbacks have returned
GetReturn ==
  /\ tg.pc = "waiting"
  /\ tg.lists # "pending"
  /\ tg.tasks # "pending"
  /\ tg' = IdleGetState
  /\ UNCHANGED coreVars
  /\ UNCHANGED schedVars
  /\ GetFrame

\* user.clearTaskIndexCache() called by the application
GetClear(userId) ==
  /\ tg.pc = "idle"
  /\ Clear(userId)
  /\ UNCHANGED tg
  /\ GetFrame

\* the process ends, by itself or by the uncaught exception, and a new one
\* starts
GetRestart ==
  /\ tg.pc \in {"idle", "thrown"}
  /\ Restart
  /\ tg' = IdleGetState
  /\ GetFrame

GetNext ==
  \/ \E userId \in GetUserIds : TasksGet(userId)
  \/ \E userId \in GetUserIds, taskIndex \in 1..MaxIndex :
       GetTask(userId, taskIndex)
  \/ \E ok \in BOOLEAN : ListsArrived(ok)
  \/ \E list \in ServerLists : TasksArrived(list)
  \/ \E list \in ServerLists : TasksSaveThrows(list)
  \/ TasksFailed
  \/ GetReturn
  \/ \E userId \in GetUserIds : GetClear(userId)
  \/ GetRestart

GetSpec == Init /\ [][GetNext]_vars


\* ------------------------------------------------------------------------
\* Properties of user.tasks.get() and user.tasks.getTask()
\* ------------------------------------------------------------------------

\* the file holds, under the index the task was given, the ids of the task
SavedIndex(f, c, userId, task) ==
  /\ IndexOf(c, userId, task) \in DOMAIN getUser(Reloaded(f), userId)
  /\ getUser(Reloaded(f), userId)[IndexOf(c, userId, task)] = NewEntry(task)

\* C26 (Persist after each fetched batch): when helper.get calls back with
\* the tasks of a rtm.tasks.getList answer, the file holds an index for each
\* of them; when it calls back with the error of the request, no index was
\* created and the file was not written.
C26_PersistBeforeCallback ==
  /\ [][(tg.tasks = "pending" /\ tg'.tasks = "ok") =>
          \A k \in DOMAIN tg'.TASKS :
            SavedIndex(file', CACHE', tg.userId, tg'.TASKS[k])]_vars
  /\ [][(tg.tasks = "pending" /\ tg'.tasks = "err") =>
          (CACHE' = CACHE /\ file' = file)]_vars

\* C26 witness: a fetch delivered two tasks of which one had no index
\* before, and the file holds the store with both.
C26_Witness ==
  /\ tg.tasks = "ok"
  /\ Len(tg.TASKS) = 2
  /\ last.minted
  /\ file = [exists |-> TRUE, data |-> Stringify(CACHE)]
  /\ \A k \in DOMAIN tg.TASKS : SavedIndex(file, CACHE, tg.userId, tg.TASKS[k])

\* C27: getTask(index) calls back with a task only when the list id, the
\* task-series id and the task id of that task are the ones stored under
\* the index, and with errors.referenceError() when no fetched task has
\* these three ids.
C27_GetTaskDeliversStoredTriple ==
  /\ tg.outTask # << >> => TaskIds(tg.outTask[1]) = tg.want
  /\ (/\ tg.stage = "task"
      /\ tg.cb = 1
      /\ tg.err = "none"
      /\ \A k \in DOMAIN tg.TASKS : TaskIds(tg.TASKS[k]) # tg.want)
     => (tg.outErr = "reference" /\ tg.outTask = << >>)

\* C28: user.tasks.get() calls its callback exactly once, in every order of
\* the two answers and for every outcome of each: with the error that
\* arrived first when a request failed, and with the tasks only when both
\* requests succeeded.
C28_CallbackExactlyOnce ==
  /\ tg.cb <= 1
  /\ (tg.lists # "pending" /\ tg.tasks # "pending") => tg.cb = 1
  /\ tg.firstErr # "none" => (tg.cb = 1 /\ tg.err = tg.firstErr)
  /\ (tg.cb = 1 /\ tg.err = "none") => (tg.lists = "ok" /\ tg.tasks = "ok")

====
